---- MODULE Spec2Model ----
(***************************************************************************)
(* Window lifecycle of the Maya outliner (maya_integration/maya_outliner.py *)
(* and maya_outliner_v2.py): the class-level singleton registry            *)
(* MayaOutliner._instances, the per-instance fields set by __init__/run()  *)
(* and cleared by close(), the QDialog each run() creates, and the Maya     *)
(* callbacks each instance registers.                                      *)
(*                                                                         *)
(* The program is single-threaded.  close() calls out to QDialog.close(),  *)
(* which dispatches the Qt close event synchronously; a close() request    *)
(* that arrives from inside that call is the re-entrant case the           *)
(* _is_closing flag exists for.  close() is therefore modelled in two      *)
(* steps, split exactly at the dialog.close() call; every other operation  *)
(* is one step.                                                            *)
(*                                                                         *)
(* Further down: the EventTimer a MayaOutlinerV2 can start, and the         *)
(* MayaOutlinerWV2 object of maya_outliner_webview2.py.                    *)
(***************************************************************************)
EXTENDS Integers, FiniteSets, Sequences, TLC

\* Bound on the number of MayaOutliner objects constructed in one run.
MaxInst == 3

Ids == 1..MaxInst

\* Bound on the number of MayaOutlinerV2 objects followed with their timer.
MaxV2Inst == 1

\* Bound on the ticks of one timer while its window is valid.
MaxTicks == 3

\* Python None for object references; instance ids start at 1.
None == 0

\* Python None for the optional singleton key.
NoKey == "None"

\* The two keys the entry points register under (one shared registry).
V1Key == "maya_outliner_default"

V2Key == "maya_outliner_v2_default"

Keys == {V1Key, V2Key}

\* The two callback closures setup_maya_callbacks registers with Maya.
Callbacks == {"on_selection_changed", "on_scene_changed"}

VARIABLES
  _instances,      \* MayaOutliner._instances: key -> instance id or None
  constructed,     \* number of MayaOutliner objects constructed so far
  dialog,          \* self.dialog: None or the QDialog run() created
  webview,         \* self.webview: None or the QtWebView run() created
  callback_ids,    \* self.callback_ids: callbacks this instance recorded
  _singleton_key,  \* self._singleton_key
  _is_closing,     \* self._is_closing
  isVisible,       \* QDialog.isVisible() of the dialog instance i created
  registered,      \* Maya side: <<instance, callback>> pairs still installed
  stack,           \* close() frames suspended inside dialog.close(), innermost last
  last,            \* record of the most recent call that returned
  _event_timer,    \* self._event_timer: "none", or the state of the EventTimer
  tick_count,      \* tick counter of the EventTimer of instance i
  _counter,        \* _counter["n"] of the handle_tick closure of instance i
  on_close_calls,  \* how often handle_close of instance i was invoked
  ticked,          \* flips with every tick
  _handle,         \* MayaOutlinerWV2._handle: "None" or the WebView2 handle
  _container,      \* MayaOutlinerWV2._container: the QDialog, by its state
  _script_jobs,    \* MayaOutlinerWV2._script_jobs
  _om_callbacks,   \* MayaOutlinerWV2._om_callbacks
  scriptJobs,      \* Maya side: scriptJobs of the object still alive
  omCallbacks,     \* Maya side: OpenMaya callbacks of the object still installed
  closeLog,        \* the outside calls the last MayaOutlinerWV2.close() made, in order
  _pending_scene_push, \* MayaOutlinerWV2._pending_scene_push
  pushTimers,      \* single-shot timers that hold a _do of _schedule_scene_push
  boundsTimer,     \* the single-shot timer of the first bounds sync is waiting
  unserved,        \* a scene push was requested and no _do has run since
  disposeCalls,    \* number of win_webview2_dispose calls made for the object
  deferredCalls    \* calls of the object handed to executeDeferred, not run yet

\* The EventTimer of each MayaOutlinerV2 and what its observers count.
timerVars == <<_event_timer, tick_count, _counter, on_close_calls, ticked>>

\* The MayaOutlinerWV2 object (maya_outliner_webview2.py) and its watchers.
wv2Vars == <<_handle, _container, _script_jobs, _om_callbacks, scriptJobs,
             omCallbacks, closeLog, _pending_scene_push, pushTimers,
             boundsTimer, unserved, disposeCalls, deferredCalls>>

vars == <<_instances, constructed, dialog, webview, callback_ids,
          _singleton_key, _is_closing, isVisible, registered,
          stack, last, timerVars, wv2Vars>>

\* The program state as one value, so that the methods below are functions
\* from state to state and can call each other as the code does.
Cur ==
  [_instances |-> _instances, constructed |-> constructed, dialog |-> dialog,
   webview |-> webview, callback_ids |-> callback_ids,
   _singleton_key |-> _singleton_key, _is_closing |-> _is_closing,
   isVisible |-> isVisible, registered |-> registered]

Install(S) ==
  /\ _instances' = S._instances
  /\ constructed' = S.constructed
  /\ dialog' = S.dialog
  /\ webview' = S.webview
  /\ callback_ids' = S.callback_ids
  /\ _singleton_key' = S._singleton_key
  /\ _is_closing' = S._is_closing
  /\ isVisible' = S.isVisible
  /\ registered' = S.registered

progVars == <<_instances, constructed, dialog, webview, callback_ids,
              _singleton_key, _is_closing, isVisible, registered>>

\* What is remembered of a call: which operation, on which key or instance,
\* what it returned, which way it went and how often it ran the factory.
NoCall ==
  [op |-> "none", key |-> NoKey, inst |-> None, ret |-> None,
   path |-> "none", factoryCalls |-> 0, visRaised |-> FALSE,
   closePath |-> "none", factoryOut |-> "none", entryAtFactory |-> None, emitted |-> "none", result |-> "none"]

Init ==
  /\ _instances = [k \in Keys |-> None]
  /\ constructed = 0
  /\ dialog = [i \in Ids |-> None]
  /\ webview = [i \in Ids |-> None]
  /\ callback_ids = [i \in Ids |-> {}]
  /\ _singleton_key = [i \in Ids |-> NoKey]
  /\ _is_closing = [i \in Ids |-> FALSE]
  /\ isVisible = [i \in Ids |-> FALSE]
  /\ registered = {}
  /\ stack = <<>>
  /\ last = NoCall
  /\ _event_timer = [i \in Ids |-> "none"]
  /\ tick_count = [i \in Ids |-> 0]
  /\ _counter = [i \in Ids |-> 0]
  /\ on_close_calls = [i \in Ids |-> 0]
  /\ ticked = FALSE
  /\ _handle = "None"
  /\ _container = "None"
  /\ _script_jobs = {}
  /\ _om_callbacks = {}
  /\ scriptJobs = {}
  /\ omCallbacks = {}
  /\ closeLog = <<>>
  /\ _pending_scene_push = FALSE
  /\ pushTimers = 0
  /\ boundsTimer = FALSE
  /\ unserved = FALSE
  /\ disposeCalls = 0
  /\ deferredCalls = {}

(***************************************************************************)
(* Methods of MayaOutliner, as functions on the program state S.           *)
(***************************************************************************)

\* MayaOutliner.__init__: a new object, all references None.
__init__(S, singleton_key) ==
  LET i == S.constructed + 1 IN
  IF i \notin Ids THEN S ELSE
  [S EXCEPT !.constructed = i,
            !.dialog[i] = None,
            !.webview[i] = None,
            !.callback_ids[i] = {},
            !._singleton_key[i] = singleton_key,
            !._is_closing[i] = FALSE]

\* setup_maya_callbacks: the closures are added to Maya one by one into a
\* local list, which is appended to self.callback_ids only at the end of the
\* try block; an exception part-way is caught and the local list is dropped.
setup_maya_callbacks(S, i, ok) ==
  IF ok
    THEN [S EXCEPT !.registered = @ \cup {<<i, c>> : c \in Callbacks},
                   !.callback_ids[i] = @ \cup Callbacks]
    ELSE [S EXCEPT !.registered = @ \cup {<<i, "on_selection_changed">>}]

\* cleanup_callbacks: remove every recorded callback, then clear the list.
cleanup_callbacks(S, i) ==
  [S EXCEPT !.registered = @ \ {<<i, c>> : c \in S.callback_ids[i]},
            !.callback_ids[i] = {}]

RunOutcomes == {"ok", "callbacks_failed", "raise"}

\* The outcomes of run() the entry points below are followed through.
FactoryOutcomes == {"ok", "raise"}

\* run(): RuntimeError before anything is created when the Maya main window
\* is not found; otherwise creates the QDialog and the QtWebView, registers
\* the Maya callbacks and shows the dialog.
run(S, i, out) ==
  IF out = "raise" \/ i \notin Ids
    THEN S
    ELSE LET S1 == [S EXCEPT !.dialog[i] = i, !.webview[i] = i]
             S2 == setup_maya_callbacks(S1, i, out = "ok")
         IN [S2 EXCEPT !.isVisible[i] = TRUE]

\* _remove_from_registry that empties the registry.
_remove_from_registry_clears_all(S, i) ==
  LET k == S._singleton_key[i] IN
  IF k # NoKey /\ S._instances[k] # None
    THEN [S EXCEPT !._instances = [k2 \in Keys |-> None]]
    ELSE S

\* _remove_from_registry that, for an instance without a key, deletes the
\* entry of the default key.
_remove_from_registry_default_key(S, i) ==
  LET k == IF S._singleton_key[i] = NoKey THEN V1Key ELSE S._singleton_key[i]
  IN IF S._instances[k] # None
       THEN [S EXCEPT !._instances[k] = None]
       ELSE S

\* _remove_from_registry: deletes the entry of this instance's key, if the
\* instance has one.
_remove_from_registry(S, i) ==
  LET k == S._singleton_key[i] IN
  IF k # NoKey /\ S._instances[k] # None
    THEN [S EXCEPT !._instances[k] = None]
    ELSE S

\* close() that clears its references but forgets to leave the registry.
close_clear_keeps_entry(S, i) ==
  [S EXCEPT !.webview[i] = None]

\* close(), lines 890-896: clear the references, leave the registry.
close_clear(S, i) ==
  _remove_from_registry([S EXCEPT !.webview[i] = None], i)

\* close() that calls dialog.close() with its Maya callbacks still installed.
close_enter_keeps_callbacks(S, i) ==
  IF S._is_closing[i]
    THEN [S |-> S, path |-> "already_closing"]
  ELSE IF S.dialog[i] = None /\ S.webview[i] = None
    THEN [S |-> _remove_from_registry(S, i), path |-> "nothing"]
  ELSE LET S1 == [S EXCEPT !._is_closing[i] = TRUE] IN
       IF S1.dialog[i] # None
         THEN [S |-> S1, path |-> "dialog_close"]
         ELSE [S |-> [close_clear(cleanup_callbacks(S1, i), i)
                        EXCEPT !._is_closing[i] = FALSE],
               path |-> "done"]

\* close() without the _is_closing gate at its entry.
close_enter_ungated(S, i) ==
  IF S.dialog[i] = None /\ S.webview[i] = None
    THEN [S |-> _remove_from_registry(S, i), path |-> "nothing"]
  ELSE LET S1 == cleanup_callbacks([S EXCEPT !._is_closing[i] = TRUE], i) IN
       IF S1.dialog[i] # None
         THEN [S |-> S1, path |-> "dialog_close"]
         ELSE [S |-> [close_clear(S1, i) EXCEPT !._is_closing[i] = FALSE],
               path |-> "done"]

\* close(), lines 868-886: from entry up to the call of dialog.close().
\* path tells where the call went: "already_closing" and "nothing" are the
\* two early returns, "dialog_close" is the call-out, "done" the completed
\* body of an instance that had no dialog.
close_enter(S, i) ==
  IF S._is_closing[i]
    THEN [S |-> S, path |-> "already_closing"]
  ELSE IF S.dialog[i] = None /\ S.webview[i] = None
    THEN [S |-> _remove_from_registry(S, i), path |-> "nothing"]
  ELSE LET S1 == cleanup_callbacks([S EXCEPT !._is_closing[i] = TRUE], i) IN
       IF S1.dialog[i] # None
         THEN [S |-> S1, path |-> "dialog_close"]
         ELSE [S |-> [close_clear(S1, i) EXCEPT !._is_closing[i] = FALSE],
               path |-> "done"]

\* How the QDialog.close() call can end: it closes (hides) the dialog and
\* returns; or it raises, with the dialog left showing or already gone.
DialogCloseOutcomes == {"closed", "raised", "raised_hidden"}

\* close(), lines 886-905: from the return of dialog.close() to the end.
\* An exception skips the rest of the try block; finally resets the flag.
close_leave(S, i, out) ==
  LET d == S.dialog[i]
      S1 == IF out = "closed"
              THEN close_clear([S EXCEPT !.isVisible[d] = FALSE,
                                         !.dialog[i] = None], i)
            ELSE IF out = "raised_hidden"
              THEN [S EXCEPT !.isVisible[d] = FALSE]
            ELSE S
  IN [S1 EXCEPT !._is_closing[i] = FALSE]

LeavePath(out) == IF out = "closed" THEN "done" ELSE "failed"

\* close() run from entry to return with nothing re-entering it.
close(S, i, out) ==
  LET e == close_enter(S, i) IN
  IF e.path = "dialog_close"
    THEN [S |-> close_leave(e.S, i, out), path |-> LeavePath(out)]
    ELSE e

\* The cleanup steps a close() call executed, by the path it took.
StepsOf(path) ==
  CASE path = "done"   -> {"cleanup_callbacks", "dialog.close", "clear_refs",
                           "_remove_from_registry"}
    [] path = "failed" -> {"cleanup_callbacks", "dialog.close"}
    [] path = "nothing" -> {"_remove_from_registry"}
    [] OTHER -> {}

\* A liveness test that never passes: every call recreates the window.
is_active_never(S, existing, visRaises) == FALSE

\* A liveness test that trusts every entry of the registry.
is_active_always(S, existing, visRaises) == TRUE

\* A liveness test that takes an isVisible() that raises for a showing
\* dialog.
is_active_trusts_raise(S, existing, visRaises) ==
  LET dialog_visible ==
        IF S.dialog[existing] # None
          THEN visRaises \/ S.isVisible[S.dialog[existing]]
          ELSE FALSE
  IN S.webview[existing] # None /\ dialog_visible

\* The liveness test of _get_or_create_singleton, lines 695-706: the dialog
\* is visible (an isVisible() that raises counts as not visible) and the
\* webview reference is set.
is_active(S, existing, visRaises) ==
  LET dialog_visible ==
        IF S.dialog[existing] # None /\ ~visRaises
          THEN S.isVisible[S.dialog[existing]]
          ELSE FALSE
  IN S.webview[existing] # None /\ dialog_visible

\* create_instance, the factory both main() functions pass.  When run()
\* raises, the new object is referenced by nothing and is dropped.
create_instance(S, key, out) ==
  IF out = "raise"
    THEN [S |-> S, inst |-> None, raised |-> TRUE]
    ELSE LET S1 == __init__(S, key)
             i == S1.constructed
         IN [S |-> run(S1, i, out), inst |-> i, raised |-> FALSE]

\* _get_or_create_singleton that stores the new instance under every key.
_get_or_create_singleton_all_keys(S, singleton_key, visRaises, cout, fout) ==
  LET existing == S._instances[singleton_key]
      live == existing # None /\ is_active(S, existing, visRaises)
  IN
  IF live
    THEN [S |-> S, ret |-> existing, raised |-> FALSE, factoryCalls |-> 0,
          existing |-> existing, preLive |-> TRUE, closePath |-> "none",
          entryAtFactory |-> None]
    ELSE
      LET c == IF existing = None
                 THEN [S |-> S, path |-> "none"]
                 ELSE close(S, existing, cout)
          S1 == IF existing # None /\ c.S._instances[singleton_key] = existing
                  THEN [c.S EXCEPT !._instances[singleton_key] = None]
                  ELSE c.S
          f == create_instance(S1, singleton_key, fout)
      IN IF f.raised
           THEN [S |-> f.S, ret |-> None, raised |-> TRUE, factoryCalls |-> 1,
                 existing |-> existing, preLive |-> FALSE,
                 closePath |-> c.path,
                 entryAtFactory |-> S1._instances[singleton_key]]
           ELSE [S |-> [f.S EXCEPT !._singleton_key[f.inst] = singleton_key,
                                   !._instances = [k \in Keys |-> f.inst]],
                 ret |-> f.inst, raised |-> FALSE, factoryCalls |-> 1,
                 existing |-> existing, preLive |-> FALSE,
                 closePath |-> c.path,
                 entryAtFactory |-> S1._instances[singleton_key]]

\* _get_or_create_singleton that invokes the factory before it closes and
\* evicts the stale instance.
_get_or_create_singleton_factory_first(S, singleton_key, visRaises, cout, fout) ==
  LET existing == S._instances[singleton_key]
      live == existing # None /\ is_active(S, existing, visRaises)
  IN
  IF live
    THEN [S |-> S, ret |-> existing, raised |-> FALSE, factoryCalls |-> 0,
          existing |-> existing, preLive |-> TRUE, closePath |-> "none",
          entryAtFactory |-> None]
    ELSE
      LET f == create_instance(S, singleton_key, fout)
          c == IF existing = None
                 THEN [S |-> f.S, path |-> "none"]
                 ELSE close(f.S, existing, cout)
          S1 == IF existing # None /\ c.S._instances[singleton_key] = existing
                  THEN [c.S EXCEPT !._instances[singleton_key] = None]
                  ELSE c.S
      IN IF f.raised
           THEN [S |-> f.S, ret |-> None, raised |-> TRUE, factoryCalls |-> 1,
                 existing |-> existing, preLive |-> FALSE,
                 closePath |-> "none",
                 entryAtFactory |-> S._instances[singleton_key]]
           ELSE [S |-> [S1 EXCEPT !._singleton_key[f.inst] = singleton_key,
                                  !._instances[singleton_key] = f.inst],
                 ret |-> f.inst, raised |-> FALSE, factoryCalls |-> 1,
                 existing |-> existing, preLive |-> FALSE,
                 closePath |-> c.path,
                 entryAtFactory |-> S._instances[singleton_key]]

\* _get_or_create_singleton that leaves the entry of a stale instance in
\* place when its close() did not remove it.
_get_or_create_singleton_no_evict(S, singleton_key, visRaises, cout, fout) ==
  LET existing == S._instances[singleton_key]
      live == existing # None /\ is_active(S, existing, visRaises)
  IN
  IF live
    THEN [S |-> S, ret |-> existing, raised |-> FALSE, factoryCalls |-> 0,
          existing |-> existing, preLive |-> TRUE, closePath |-> "none",
          entryAtFactory |-> None]
    ELSE
      LET c == IF existing = None
                 THEN [S |-> S, path |-> "none"]
                 ELSE close(S, existing, cout)
          f == create_instance(c.S, singleton_key, fout)
      IN IF f.raised
           THEN [S |-> f.S, ret |-> None, raised |-> TRUE, factoryCalls |-> 1,
                 existing |-> existing, preLive |-> FALSE,
                 closePath |-> c.path,
                 entryAtFactory |-> c.S._instances[singleton_key]]
           ELSE [S |-> [f.S EXCEPT !._singleton_key[f.inst] = singleton_key,
                                   !._instances[singleton_key] = f.inst],
                 ret |-> f.inst, raised |-> FALSE, factoryCalls |-> 1,
                 existing |-> existing, preLive |-> FALSE,
                 closePath |-> c.path,
                 entryAtFactory |-> c.S._instances[singleton_key]]

\* _get_or_create_singleton.  closePath is the way the close() of a stale
\* instance went ("none" when there was nothing to close); whatever that
\* close() did, the entry is deleted if it still holds the stale instance.
\* entryAtFactory is the entry of the key at the moment the factory is
\* invoked (None when it is not invoked).
_get_or_create_singleton(S, singleton_key, visRaises, cout, fout) ==
  LET existing == S._instances[singleton_key]
      live == existing # None /\ is_active(S, existing, visRaises)
  IN
  IF live
    THEN [S |-> S, ret |-> existing, raised |-> FALSE, factoryCalls |-> 0,
          existing |-> existing, preLive |-> TRUE, closePath |-> "none",
          entryAtFactory |-> None]
    ELSE
      LET c == IF existing = None
                 THEN [S |-> S, path |-> "none"]
                 ELSE close(S, existing, cout)
          S1 == IF existing # None /\ c.S._instances[singleton_key] = existing
                  THEN [c.S EXCEPT !._instances[singleton_key] = None]
                  ELSE c.S
          f == create_instance(S1, singleton_key, fout)
      IN IF f.raised
           THEN [S |-> f.S, ret |-> None, raised |-> TRUE, factoryCalls |-> 1,
                 existing |-> existing, preLive |-> FALSE,
                 closePath |-> c.path,
                 entryAtFactory |-> S1._instances[singleton_key]]
           ELSE [S |-> [f.S EXCEPT !._singleton_key[f.inst] = singleton_key,
                                   !._instances[singleton_key] = f.inst],
                 ret |-> f.inst, raised |-> FALSE, factoryCalls |-> 1,
                 existing |-> existing, preLive |-> FALSE,
                 closePath |-> c.path,
                 entryAtFactory |-> S1._instances[singleton_key]]

(***************************************************************************)
(* Lifecycle state of an instance, read off its fields.                    *)
(***************************************************************************)
Live(i) == dialog[i] # None /\ webview[i] # None /\ isVisible[dialog[i]]

Closing(i) == _is_closing[i]

Running(i) == Live(i) /\ ~_is_closing[i]

Closed(i) ==
  i <= constructed /\ ~_is_closing[i] /\ dialog[i] = None /\ webview[i] = None

(***************************************************************************)
(* Operations.                                                             *)
(***************************************************************************)

\* isVisible() raises when the Qt object behind self.dialog is gone; such a
\* dialog is not showing.
CanRaiseVisible(k) ==
  /\ _instances[k] # None
  /\ dialog[_instances[k]] # None
  /\ ~isVisible[dialog[_instances[k]]]

\* main(singleton=True) with the outcomes of run() drawn from Outs.
main_with(k, Outs) ==
  /\ stack = <<>>
  /\ \E visRaises \in BOOLEAN, cout \in DialogCloseOutcomes,
        fout \in Outs :
       LET r == _get_or_create_singleton(Cur, k, visRaises, cout, fout) IN
       /\ visRaises => CanRaiseVisible(k)
       /\ IF r.factoryCalls = 0 \/ r.raised THEN TRUE ELSE constructed < MaxInst
       /\ Install(r.S)
       /\ last' = [op |-> "get_or_create", key |-> k, inst |-> r.existing,
                   ret |-> r.ret,
                   path |-> IF r.raised THEN "raised" ELSE "returned",
                   factoryCalls |-> r.factoryCalls,
                   visRaised |-> visRaises,
                   closePath |-> r.closePath,
                   factoryOut |-> IF r.factoryCalls = 0 THEN "none" ELSE fout,
                   entryAtFactory |-> r.entryAtFactory, emitted |-> "none", result |-> "none"]
  /\ UNCHANGED <<stack, timerVars, wv2Vars>>

\* main(singleton=True) of maya_outliner.py (V1Key) and maya_outliner_v2.py
\* (V2Key): _get_or_create_singleton with create_instance as factory.
main(k) == main_with(k, FactoryOutcomes)

\* instance.close() is called: by the host script when no close is in
\* progress, or from inside the dialog.close() of the same instance.
close_call(i) ==
  /\ i <= constructed
  /\ IF stack = <<>> THEN TRUE ELSE stack[Len(stack)].inst = i
  /\ LET e == close_enter(Cur, i) IN
     /\ Install(e.S)
     /\ IF e.path = "dialog_close"
          THEN /\ stack' = Append(stack, [inst |-> i, wasRunning |-> Running(i)])
               /\ UNCHANGED last
          ELSE /\ last' = [op |-> "close", key |-> _singleton_key[i],
                           inst |-> i, ret |-> None, path |-> e.path,
                           factoryCalls |-> 0, visRaised |-> FALSE,
                           closePath |-> "none", factoryOut |-> "none", entryAtFactory |-> None, emitted |-> "none", result |-> "none"]
               /\ UNCHANGED stack
  /\ UNCHANGED <<timerVars, wv2Vars>>

\* dialog.close() returns or raises and the suspended close() runs to its end.
dialog_close_returns ==
  /\ stack # <<>>
  /\ \E out \in DialogCloseOutcomes :
       LET i == stack[Len(stack)].inst IN
       /\ Install(close_leave(Cur, i, out))
       /\ last' = [op |-> "close", key |-> _singleton_key[i], inst |-> i,
                   ret |-> None, path |-> LeavePath(out), factoryCalls |-> 0,
                   visRaised |-> FALSE, closePath |-> "none",
                   factoryOut |-> "none", entryAtFactory |-> None, emitted |-> "none", result |-> "none"]
  /\ stack' = SubSeq(stack, 1, Len(stack) - 1)
  /\ UNCHANGED <<timerVars, wv2Vars>>

\* The operator closes the dialog with the window's close button: Qt hides
\* the dialog; no code of the instance runs.
operator_close(i) ==
  /\ stack = <<>>
  /\ i <= constructed
  /\ dialog[i] # None
  /\ isVisible[dialog[i]]
  /\ isVisible' = [isVisible EXCEPT ![dialog[i]] = FALSE]
  /\ last' = [op |-> "operator_close", key |-> _singleton_key[i], inst |-> i,
              ret |-> None, path |-> "none", factoryCalls |-> 0,
              visRaised |-> FALSE, closePath |-> "none",
              factoryOut |-> "none", entryAtFactory |-> None, emitted |-> "none", result |-> "none"]
  /\ UNCHANGED <<_instances, constructed, dialog, webview, callback_ids,
                 _singleton_key, _is_closing, registered, stack, timerVars,
                 wv2Vars>>

\* The host script calls run() again on an instance it holds.  run() has no
\* guard of its own; the model follows the call on instances whose dialog
\* reference is None, where no earlier dialog is left behind.
run_call(i) ==
  /\ stack = <<>>
  /\ i <= constructed
  /\ dialog[i] = None
  /\ \E out \in FactoryOutcomes :
       /\ Install(run(Cur, i, out))
       /\ last' = [op |-> "run", key |-> _singleton_key[i], inst |-> i,
                   ret |-> None,
                   path |-> IF out = "raise" THEN "raised" ELSE "returned",
                   factoryCalls |-> 0, visRaised |-> FALSE,
                           closePath |-> "none", factoryOut |-> "none", entryAtFactory |-> None, emitted |-> "none", result |-> "none"]
  /\ UNCHANGED <<stack, timerVars, wv2Vars>>

Next ==
  \/ \E k \in Keys : main(k)
  \/ \E i \in Ids : close_call(i)
  \/ dialog_close_returns
  \/ \E i \in Ids : operator_close(i)

\* The entry points, close() and the operator.
Spec == Init /\ [][Next]_vars

\* How a Maya command behind an API call (cmds.select, cmds.setAttr) can end.
HostOutcomes == {"ok", "raise"}

\* send_scene_update: returns at once when self.webview is not set;
\* otherwise emits scene_updated.  The value is the event emitted.
send_scene_update(S, i) ==
  IF S.webview[i] = None THEN "none" ELSE "scene_updated"

\* send_selection_changed: returns at once when self.webview is not set;
\* emits selection_changed when something is selected.
send_selection_changed(S, i, selected) ==
  IF S.webview[i] = None THEN "none"
  ELSE IF selected THEN "selection_changed" ELSE "none"

\* MayaOutliner.select_node: cmds.select inside try / except Exception, which
\* prints the error; the method returns either way.
select_node(S, i, hostOut) ==
  [emitted |-> "none", raised |-> FALSE]

\* MayaOutliner.set_visibility: cmds.setAttr, then send_scene_update if
\* self.webview is set, all inside try / except Exception, which prints the
\* error; the method returns either way.
set_visibility(S, i, hostOut) ==
  [emitted |-> IF hostOut = "raise" \/ S.webview[i] = None THEN "none"
               ELSE send_scene_update(S, i),
   raised |-> FALSE]

\* MayaOutlinerAPI.select_node / set_visibility: ok is True unless the
\* method of the outliner raised.
MayaOutlinerAPI_result(r) ==
  IF r.raised THEN "ok_false" ELSE "ok_true"

\* A Maya callback the instance registered fires (from the event loop).
callback_fires(i, c) ==
  /\ stack = <<>>
  /\ <<i, c>> \in registered
  /\ \E selected \in BOOLEAN :
       last' = [op |-> c, key |-> _singleton_key[i], inst |-> i,
                ret |-> None, path |-> "returned", factoryCalls |-> 0,
                visRaised |-> FALSE, closePath |-> "none",
                factoryOut |-> "none", entryAtFactory |-> None,
                emitted |-> IF c = "on_scene_changed"
                              THEN send_scene_update(Cur, i)
                              ELSE send_selection_changed(Cur, i, selected),
                result |-> "none"]
  /\ UNCHANGED <<progVars, stack, timerVars, wv2Vars>>

\* The page calls api.select_node(...) on the API object of instance i.
api_select_node(i) ==
  /\ stack = <<>>
  /\ i <= constructed
  /\ webview[i] # None
  /\ \E hostOut \in HostOutcomes :
       LET r == select_node(Cur, i, hostOut) IN
       last' = [op |-> "api_select_node", key |-> _singleton_key[i],
                inst |-> i, ret |-> None, path |-> hostOut,
                factoryCalls |-> 0, visRaised |-> FALSE,
                closePath |-> "none", factoryOut |-> "none",
                entryAtFactory |-> None, emitted |-> r.emitted,
                result |-> MayaOutlinerAPI_result(r)]
  /\ UNCHANGED <<progVars, stack, timerVars, wv2Vars>>

\* The page calls api.set_visibility(...) on the API object of instance i.
api_set_visibility(i) ==
  /\ stack = <<>>
  /\ i <= constructed
  /\ webview[i] # None
  /\ \E hostOut \in HostOutcomes :
       LET r == set_visibility(Cur, i, hostOut) IN
       last' = [op |-> "api_set_visibility", key |-> _singleton_key[i],
                inst |-> i, ret |-> None, path |-> hostOut,
                factoryCalls |-> 0, visRaised |-> FALSE,
                closePath |-> "none", factoryOut |-> "none",
                entryAtFactory |-> None, emitted |-> r.emitted,
                result |-> MayaOutlinerAPI_result(r)]
  /\ UNCHANGED <<progVars, stack, timerVars, wv2Vars>>

NextEmit ==
  \/ main_with(V1Key, RunOutcomes)
  \/ \E i \in Ids : close_call(i)
  \/ dialog_close_returns
  \/ \E i \in Ids : operator_close(i)
  \/ \E i \in Ids, c \in Callbacks : callback_fires(i, c)
  \/ \E i \in Ids : api_select_node(i)
  \/ \E i \in Ids : api_set_visibility(i)

\* The Qt outliner with its Maya callbacks firing and its page calling the
\* API.
SpecEmit == Init /\ [][NextEmit]_vars

NextRerun ==
  \/ Next
  \/ \E i \in Ids : run_call(i)

\* The same, with run() called again on instances the host script holds.
SpecRerun == Init /\ [][NextRerun]_vars

\* main(singleton=False): MayaOutliner(context_menu=...) with no singleton
\* key, then run(); the registry is not consulted.
main_multi ==
  /\ stack = <<>>
  /\ constructed < MaxInst
  /\ \E out \in RunOutcomes :
       LET f == create_instance(Cur, NoKey, out) IN
       /\ Install(f.S)
       /\ last' = [op |-> "main_multi", key |-> NoKey, inst |-> None,
                   ret |-> f.inst,
                   path |-> IF f.raised THEN "raised" ELSE "returned",
                   factoryCalls |-> 0, visRaised |-> FALSE,
                   closePath |-> "none", factoryOut |-> out,
                   entryAtFactory |-> None, emitted |-> "none", result |-> "none"]
  /\ UNCHANGED <<stack, timerVars, wv2Vars>>

NextMulti ==
  \/ main(V1Key)
  \/ main_multi
  \/ \E i \in Ids : close_call(i)
  \/ dialog_close_returns
  \/ \E i \in Ids : operator_close(i)

\* maya_outliner.main in both modes in one session.
SpecMulti == Init /\ [][NextMulti]_vars

(***************************************************************************)
(* MayaOutlinerV2 (maya_outliner_v2.py) and the EventTimer it starts.  The *)
(* EventTimer class is part of the auroraview library; start(), stop(),     *)
(* cleanup() and the tick are modelled from section 4.3 of the             *)
(* specification.  The observers handle_tick and handle_close are the      *)
(* closures _start_lifecycle_processing registers.                         *)
(***************************************************************************)

\* How _start_event_processing can go: the timer is started; or the webview
\* has no lifecycle support or the EventTimer cannot be set up, and the call
\* ends in super()._start_event_processing(), which MayaOutliner lacks.
StartOutcomes == {"started", "unsupported"}

\* How a call of an observer can end.
ObserverOutcomes == {"ok", "raise"}

\* EventTimer.start(): the running flag becomes true.
EventTimer_start(t) == "running"

\* EventTimer.stop(): halts scheduling; idempotent.
EventTimer_stop(t) == IF t = "running" THEN "stopped" ELSE t

\* EventTimer.cleanup(): stop(), then the references and callbacks are
\* cleared.
EventTimer_cleanup(t) == "cleaned"

\* A tick that goes on ticking after it detected the close.
EventTimer_tick_keeps_running(t, n, check_window_validity, valid, obsRaised) ==
  [timer |-> t, ticks |-> n + 1,
   closeDetected |-> check_window_validity /\ ~valid]

\* A tick that an exception of an observer brings to a halt.
EventTimer_tick_uncontained(t, n, check_window_validity, valid, obsRaised) ==
  LET closeDetected == check_window_validity /\ ~valid IN
  [timer |-> IF closeDetected \/ obsRaised THEN "stopped" ELSE t,
   ticks |-> n + 1, closeDetected |-> closeDetected]

\* One tick of a running EventTimer: the tick counter is incremented, the
\* tick observers are invoked (what they raise is caught), and with
\* check_window_validity an invalid handle is a detected close: the close
\* observers are invoked (what they raise is caught) and the timer stops
\* itself.
EventTimer_tick(t, n, check_window_validity, valid, obsRaised) ==
  LET closeDetected == check_window_validity /\ ~valid IN
  [timer |-> IF closeDetected THEN "stopped" ELSE t,
   ticks |-> n + 1, closeDetected |-> closeDetected]

\* handle_tick that counts only while the window is showing.
handle_tick_skips(S, i, n) == IF S.isVisible[i] THEN n + 1 ELSE n

\* handle_tick, lines 106-119: counts the tick, then prints.
handle_tick(S, i, n) == n + 1

\* handle_close, lines 121-131: prints, then calls self.close() inside
\* try/except.  obs = "raise" is the print before the try block raising.
handle_close(S, i, obs, cout) ==
  IF obs = "raise" THEN S ELSE close(S, i, cout).S

\* The native handle the timer watches is that of the window run() created
\* for instance i; it is valid while that window is showing.
HandleValid(i) == isVisible[i]

\* MayaOutlinerV2._start_event_processing, called by the host script on an
\* instance that has no timer yet.  Nothing in run() or main() calls it.
_start_event_processing(i) ==
  /\ stack = <<>>
  /\ i <= constructed
  /\ _singleton_key[i] = V2Key
  /\ _event_timer[i] = "none"
  /\ \E out \in StartOutcomes :
       LET started == webview[i] # None /\ out = "started" IN
       /\ _event_timer' = [_event_timer EXCEPT ![i] =
                             IF started THEN EventTimer_start(@) ELSE @]
       /\ last' = [op |-> "_start_event_processing",
                   key |-> _singleton_key[i], inst |-> i, ret |-> None,
                   path |-> IF webview[i] = None THEN "no_webview"
                            ELSE IF started THEN "started" ELSE "raised",
                   factoryCalls |-> 0, visRaised |-> FALSE,
                   closePath |-> "none", factoryOut |-> "none", entryAtFactory |-> None, emitted |-> "none", result |-> "none"]
  /\ UNCHANGED <<progVars, stack, tick_count, _counter, on_close_calls, ticked,
                 wv2Vars>>

\* The Qt timer of a running EventTimer fires.  Ticks come from the event
\* loop, so none runs inside a dialog.close() call.  The tick that finds the
\* handle invalid is followed whatever the count.
tick(i) ==
  /\ stack = <<>>
  /\ _event_timer[i] = "running"
  /\ IF HandleValid(i) THEN tick_count[i] < MaxTicks ELSE TRUE
  /\ \E tickObs \in ObserverOutcomes, closeObs \in ObserverOutcomes,
        cout \in DialogCloseOutcomes :
       LET t == EventTimer_tick(_event_timer[i], tick_count[i], TRUE,
                                HandleValid(i),
                                tickObs = "raise" \/ closeObs = "raise")
       IN
       /\ tick_count' = [tick_count EXCEPT ![i] = t.ticks]
       /\ _counter' = [_counter EXCEPT ![i] = handle_tick(Cur, i, @)]
       /\ _event_timer' = [_event_timer EXCEPT ![i] = t.timer]
       /\ IF t.closeDetected
            THEN /\ on_close_calls' = [on_close_calls EXCEPT ![i] = @ + 1]
                 /\ Install(handle_close(Cur, i, closeObs, cout))
            ELSE /\ UNCHANGED on_close_calls
                 /\ UNCHANGED progVars
       /\ last' = [op |-> "tick", key |-> _singleton_key[i], inst |-> i,
                   ret |-> None,
                   path |-> IF tickObs = "raise" \/ (t.closeDetected /\ closeObs = "raise")
                              THEN "observer_raised" ELSE "ticked",
                   factoryCalls |-> 0, visRaised |-> FALSE,
                   closePath |-> "none", factoryOut |-> "none", entryAtFactory |-> None, emitted |-> "none", result |-> "none"]
  /\ ticked' = ~ticked
  /\ UNCHANGED <<stack, wv2Vars>>

\* The host script calls stop() on the timer of instance i.
stop(i) ==
  /\ stack = <<>>
  /\ _event_timer[i] \in {"running", "stopped"}
  /\ _event_timer' = [_event_timer EXCEPT ![i] = EventTimer_stop(@)]
  /\ last' = [op |-> "stop", key |-> _singleton_key[i], inst |-> i,
              ret |-> None, path |-> "none", factoryCalls |-> 0,
              visRaised |-> FALSE, closePath |-> "none",
              factoryOut |-> "none", entryAtFactory |-> None, emitted |-> "none", result |-> "none"]
  /\ UNCHANGED <<progVars, stack, tick_count, _counter, on_close_calls, ticked,
                 wv2Vars>>

\* The host script calls cleanup() on the timer of instance i.
cleanup(i) ==
  /\ stack = <<>>
  /\ _event_timer[i] \in {"running", "stopped"}
  /\ _event_timer' = [_event_timer EXCEPT ![i] = EventTimer_cleanup(@)]
  /\ last' = [op |-> "cleanup", key |-> _singleton_key[i], inst |-> i,
              ret |-> None, path |-> "none", factoryCalls |-> 0,
              visRaised |-> FALSE, closePath |-> "none",
              factoryOut |-> "none", entryAtFactory |-> None, emitted |-> "none", result |-> "none"]
  /\ UNCHANGED <<progVars, stack, tick_count, _counter, on_close_calls, ticked,
                 wv2Vars>>

\* maya_outliner_v2.main(singleton=True).
main_v2 ==
  /\ main(V2Key)
  /\ constructed' <= MaxV2Inst

NextTimer ==
  \/ main_v2
  \/ \E i \in Ids : _start_event_processing(i)
  \/ \E i \in Ids : tick(i)
  \/ \E i \in Ids : stop(i)
  \/ \E i \in Ids : cleanup(i)
  \/ \E i \in Ids : operator_close(i)
  \/ \E i \in Ids : close_call(i)
  \/ dialog_close_returns

\* MayaOutlinerV2 instances, their timers, close() and the operator.
SpecTimer == Init /\ [][NextTimer]_vars

\* The same; a running timer goes on ticking.
SpecTimerFair == SpecTimer /\ \A i \in Ids : WF_vars(tick(i))

\* A tick of the timer of instance i ran in this step.
IsTick(i) == ticked' # ticked /\ last'.op = "tick" /\ last'.inst = i

(***************************************************************************)
(* MayaOutlinerWV2 (maya_outliner_webview2.py): one object, which embeds a *)
(* WebView2 handle in a QDialog container and registers Maya scriptJobs    *)
(* and OpenMaya callbacks.  It does not use the registry.                  *)
(***************************************************************************)

\* The events _register_maya_watchers creates a scriptJob for.
Jobs == {"SelectionChanged", "DagObjectCreated", "DagObjectRemoved"}

\* The scene messages _register_maya_watchers adds a callback for.
OmCallbacks == {"kAfterOpen", "kAfterNew"}

\* How the registration can go: every watcher is registered; the second
\* addCallback raises, so that the first callback is installed but not
\* recorded; or there are no watchers (Maya is not available).
WatcherOutcomes == {"all", "om_partial", "none"}

\* How container.close() can end.
ContainerCloseOutcomes == {"closed", "raised"}

\* How win_webview2_dispose can end.
DisposeOutcomes == {"disposed", "raised"}

\* How the emit statement of _do can go: the message is posted;
\* win_webview2_post_message raises; get_scene_hierarchy raises while the
\* argument of _emit is computed.
PushOutcomes == {"posted", "post_raised", "hierarchy_raised"}

\* How a call of _emit can go.
EmitOutcomes == {"posted", "post_raised"}

\* The MayaOutlinerWV2 object and its watchers as one value.
WCur ==
  [_handle |-> _handle, _container |-> _container,
   _script_jobs |-> _script_jobs, _om_callbacks |-> _om_callbacks,
   scriptJobs |-> scriptJobs, omCallbacks |-> omCallbacks,
   closeLog |-> closeLog, _pending_scene_push |-> _pending_scene_push,
   pushTimers |-> pushTimers, boundsTimer |-> boundsTimer,
   unserved |-> unserved, disposeCalls |-> disposeCalls,
   deferredCalls |-> deferredCalls]

InstallW(W) ==
  /\ _handle' = W._handle
  /\ _container' = W._container
  /\ _script_jobs' = W._script_jobs
  /\ _om_callbacks' = W._om_callbacks
  /\ scriptJobs' = W.scriptJobs
  /\ omCallbacks' = W.omCallbacks
  /\ closeLog' = W.closeLog
  /\ _pending_scene_push' = W._pending_scene_push
  /\ pushTimers' = W.pushTimers
  /\ boundsTimer' = W.boundsTimer
  /\ unserved' = W.unserved
  /\ disposeCalls' = W.disposeCalls
  /\ deferredCalls' = W.deferredCalls

\* _register_maya_watchers: three scriptJobs, each recorded as it is
\* created; two OpenMaya callbacks, recorded together after the second.
_register_maya_watchers(W, out) ==
  IF out = "none"
    THEN W
    ELSE [W EXCEPT !.scriptJobs = Jobs,
                   !._script_jobs = Jobs,
                   !.omCallbacks = IF out = "all" THEN OmCallbacks
                                   ELSE {"kAfterOpen"},
                   !._om_callbacks = IF out = "all" THEN OmCallbacks ELSE {}]

\* _teardown_watchers: kill the recorded scriptJobs, remove the recorded
\* callbacks, clear both lists.
_teardown_watchers(W) ==
  [W EXCEPT !.scriptJobs = @ \ W._script_jobs,
            !._script_jobs = {},
            !.omCallbacks = @ \ W._om_callbacks,
            !._om_callbacks = {},
            !.closeLog = @ \o (IF W._script_jobs # {}
                                 THEN <<"scriptJob.kill">> ELSE <<>>)
                           \o (IF W._om_callbacks # {}
                                 THEN <<"removeCallback">> ELSE <<>>)]

\* MayaOutlinerWV2.__init__: the container is shown, the WebView2 is
\* embedded in it, the first bounds sync is handed to a single-shot timer,
\* the watchers are registered.
WV2__init__(W, out) ==
  _register_maya_watchers([W EXCEPT !._container = "shown",
                                    !._pending_scene_push = FALSE,
                                    !._handle = "handle",
                                    !.boundsTimer = TRUE], out)

\* MayaOutlinerWV2.close() that disposes the handle before it removes the
\* watchers.
WV2_close_dispose_first(W, dout, cout) ==
  LET W1 == IF W._handle # "None"
              THEN [W EXCEPT !.closeLog = <<"dispose">>,
                             !.disposeCalls = @ + 1, !._handle = "None"]
              ELSE [W EXCEPT !.closeLog = <<>>]
      W2 == _teardown_watchers(W1)
  IN IF W2._container # "None"
       THEN [W2 EXCEPT !.closeLog = Append(@, "container.close"),
                       !._container = IF cout = "closed" THEN "closed" ELSE @]
       ELSE W2

\* MayaOutlinerWV2.close() without the try around win_webview2_dispose: what
\* dispose raises ends the call there.
WV2_close_uncaught(W, dout, cout) ==
  LET W1 == _teardown_watchers([W EXCEPT !.closeLog = <<>>])
      W2 == IF W1._handle # "None"
              THEN [W1 EXCEPT !.closeLog = Append(@, "dispose"),
                              !.disposeCalls = @ + 1,
                              !._handle = IF dout = "raised" THEN @
                                          ELSE "None"]
              ELSE W1
  IN IF W2._container # "None" /\ W2._handle = "None"
       THEN [W2 EXCEPT !.closeLog = Append(@, "container.close"),
                       !._container = IF cout = "closed" THEN "closed" ELSE @]
       ELSE W2

\* MayaOutlinerWV2.close() that keeps the handle reference after dispose.
WV2_close_keeps_handle(W, dout, cout) ==
  LET W1 == _teardown_watchers([W EXCEPT !.closeLog = <<>>])
      W2 == IF W1._handle # "None"
              THEN [W1 EXCEPT !.closeLog = Append(@, "dispose"),
                              !.disposeCalls = @ + 1]
              ELSE W1
  IN IF W2._container # "None"
       THEN [W2 EXCEPT !.closeLog = Append(@, "container.close"),
                       !._container = IF cout = "closed" THEN "closed" ELSE @]
       ELSE W2

\* MayaOutlinerWV2.close(): the watchers are removed; the handle, if set, is
\* disposed and the reference cleared; the container is closed.  What
\* dispose (dout) or container.close() (cout) raises is swallowed.  Timers
\* that wait are left alone.
WV2_close(W, dout, cout) ==
  LET W1 == _teardown_watchers([W EXCEPT !.closeLog = <<>>])
      W2 == IF W1._handle # "None"
              THEN [W1 EXCEPT !.closeLog = Append(@, "dispose"),
                              !.disposeCalls = @ + 1,
                              !._handle = "None"]
              ELSE W1
  IN IF W2._container # "None"
       THEN [W2 EXCEPT !.closeLog = Append(@, "container.close"),
                       !._container = IF cout = "closed" THEN "closed" ELSE @]
       ELSE W2

\* _schedule_scene_push without the test of the pending flag.
_schedule_scene_push_ungated(W) ==
  [W EXCEPT !._pending_scene_push = TRUE, !.pushTimers = @ + 1]

\* _schedule_scene_push: nothing while a push is pending; otherwise the flag
\* is set and _do is handed to a single-shot timer.
_schedule_scene_push(W) ==
  IF W._pending_scene_push
    THEN W
    ELSE [W EXCEPT !._pending_scene_push = TRUE, !.pushTimers = @ + 1]

\* The calls _do makes on the WebView2 surface: the post_message of its
\* _emit, unless get_scene_hierarchy raised before.
_do_calls(out) ==
  IF out = "hierarchy_raised" THEN <<>> ELSE <<"post_message">>

\* _do that clears the flag after its emit statement instead of in a
\* finally clause.
_do_without_finally(W, out) ==
  [W EXCEPT !._pending_scene_push = IF out = "posted" THEN FALSE ELSE @,
            !.pushTimers = @ - 1]

\* _do of _schedule_scene_push, run by its timer: try _emit("scene_updated",
\* get_scene_hierarchy()), finally clear the flag.
_do(W, out) ==
  [W EXCEPT !._pending_scene_push = FALSE, !.pushTimers = @ - 1]

\* main() of maya_outliner_webview2.py: constructs the object.  The model
\* follows one such object, in a session that opens no other outliner.
wv2_main ==
  /\ constructed = 0
  /\ _container = "None"
  /\ \E out \in WatcherOutcomes : InstallW(WV2__init__(WCur, out))
  /\ last' = [op |-> "wv2_main", key |-> NoKey, inst |-> None, ret |-> None,
              path |-> "returned", factoryCalls |-> 0, visRaised |-> FALSE,
              closePath |-> "none", factoryOut |-> "none", entryAtFactory |-> None, emitted |-> "none", result |-> "none"]
  /\ UNCHANGED <<progVars, stack, timerVars>>

\* The host script calls close() on the MayaOutlinerWV2 object.
wv2_close ==
  /\ _container # "None"
  /\ \E dout \in DisposeOutcomes, cout \in ContainerCloseOutcomes :
       InstallW(WV2_close(WCur, dout, cout))
  /\ last' = [op |-> "wv2_close", key |-> NoKey, inst |-> None, ret |-> None,
              path |-> "returned", factoryCalls |-> 0, visRaised |-> FALSE,
              closePath |-> "none", factoryOut |-> "none", entryAtFactory |-> None, emitted |-> "none", result |-> "none"]
  /\ UNCHANGED <<progVars, stack, timerVars>>

\* A scene watcher of the object fires (a DagObjectCreated or
\* DagObjectRemoved scriptJob, or a scene-message callback): each of them
\* calls _schedule_scene_push(120).
scene_watcher_fires ==
  /\ (scriptJobs \cap {"DagObjectCreated", "DagObjectRemoved"})
       \cup omCallbacks # {}
  /\ InstallW([_schedule_scene_push(WCur) EXCEPT !.unserved = TRUE])
  /\ last' = [op |-> "_schedule_scene_push", key |-> NoKey, inst |-> None, ret |-> None,
              path |-> IF _pending_scene_push THEN "dropped" ELSE "scheduled", factoryCalls |-> 0, visRaised |-> FALSE,
              closePath |-> "none", factoryOut |-> "none",
              entryAtFactory |-> None, emitted |-> "none", result |-> "none"]
  /\ UNCHANGED <<progVars, stack, timerVars>>

\* The SelectionChanged scriptJob fires: _on_maya_selection_changed calls
\* _emit inside a try.
selection_watcher_fires ==
  /\ "SelectionChanged" \in scriptJobs
  /\ \E out \in EmitOutcomes :
       last' = [op |-> "_on_maya_selection_changed", key |-> NoKey, inst |-> None, ret |-> None,
                 path |-> out, factoryCalls |-> 0, visRaised |-> FALSE,
                 closePath |-> "none", factoryOut |-> "none",
                 entryAtFactory |-> None, emitted |-> "none", result |-> "post_message"]
  /\ UNCHANGED <<progVars, stack, timerVars, wv2Vars>>

\* The single-shot timer of a scheduled scene push fires and runs _do, which
\* executes its one emit statement.  The hierarchy is read when the timer
\* fires, so the run serves every request made before it.
do_fires ==
  /\ pushTimers > 0
  /\ \E out \in PushOutcomes :
       /\ InstallW([_do(WCur, out) EXCEPT !.unserved = FALSE])
       /\ last' = [op |-> "_do", key |-> NoKey, inst |-> None, ret |-> None,
                   path |-> out, factoryCalls |-> 0, visRaised |-> FALSE,
                   closePath |-> "none", factoryOut |-> "none",
                   entryAtFactory |-> None, emitted |-> "scene_updated",
                   result |-> IF _do_calls(out) = <<>> THEN "none"
                              ELSE _do_calls(out)[1]]
  /\ UNCHANGED <<progVars, stack, timerVars>>

\* The single-shot timer of the first bounds sync fires: the lambda calls
\* win_webview2_set_bounds(self._handle, ...).
bounds_sync_fires ==
  /\ boundsTimer
  /\ InstallW([WCur EXCEPT !.boundsTimer = FALSE])
  /\ last' = [op |-> "bounds_sync", key |-> NoKey, inst |-> None, ret |-> None,
              path |-> "returned", factoryCalls |-> 0, visRaised |-> FALSE,
              closePath |-> "none", factoryOut |-> "none",
              entryAtFactory |-> None, emitted |-> "none", result |-> "set_bounds"]
  /\ UNCHANGED <<progVars, stack, timerVars>>

NextWV2 ==
  \/ wv2_main
  \/ wv2_close
  \/ scene_watcher_fires
  \/ selection_watcher_fires
  \/ do_fires
  \/ bounds_sync_fires

\* One MayaOutlinerWV2 with its watchers and timers.
SpecWV2 == Init /\ [][NextWV2]_vars

\* Every single-shot timer that waits fires.
SpecWV2Fair == SpecWV2 /\ WF_vars(do_fires) /\ WF_vars(bounds_sync_fires)

\* The message texts the page can send, by what on_msg makes of them: text
\* that is not JSON; JSON that is not an object; an object whose type is not
\* "event"; an event with an unknown name; get_scene_hierarchy; and
\* select_node / set_visibility with a detail that names a node, is an
\* object without node_name, is missing, or is not an object (null, a
\* string, a number, a list).
Messages ==
  {"invalid_json", "not_object", "type_not_event", "unknown_event",
   "get_scene_hierarchy",
   "select_node", "select_node_no_name", "select_node_no_detail",
   "select_node_detail_not_object",
   "set_visibility", "set_visibility_no_name", "set_visibility_no_detail",
   "set_visibility_detail_not_object"}

\* The well-formed events the handler acts on.
WellFormed == {"get_scene_hierarchy", "select_node", "set_visibility"}

\* The event name of a message that is an object of type "event".
EventOf(m) ==
  IF m \in {"select_node", "select_node_no_name", "select_node_no_detail",
            "select_node_detail_not_object"} THEN "select_node"
  ELSE IF m \in {"set_visibility", "set_visibility_no_name",
                 "set_visibility_no_detail",
                 "set_visibility_detail_not_object"} THEN "set_visibility"
  ELSE IF m = "get_scene_hierarchy" THEN "get_scene_hierarchy"
  ELSE "other"

\* on_msg of _register_handlers, with Maya available.  Text that is not JSON
\* becomes an object of type "raw"; what is not an object of type "event" is
\* ignored.  get_scene_hierarchy emits scene_updated at once (out is how that
\* emit goes).  select_node and set_visibility read detail.get("node_name")
\* from data.get("detail", {}): a missing detail reads as {}, a detail that
\* is not an object has no get and the read raises AttributeError; with a
\* node name the call is handed to executeDeferred.
on_msg(W, m, out) ==
  IF m \in {"invalid_json", "not_object", "type_not_event"}
    THEN [W |-> W, raised |-> FALSE, emitted |-> "none", calls |-> <<>>]
  ELSE IF EventOf(m) = "get_scene_hierarchy"
    THEN [W |-> W, raised |-> out # "posted", emitted |-> "scene_updated",
          calls |-> _do_calls(out)]
  ELSE IF m \in {"select_node_detail_not_object",
                 "set_visibility_detail_not_object"}
    THEN [W |-> W, raised |-> TRUE, emitted |-> "none", calls |-> <<>>]
  ELSE IF m \in {"select_node", "set_visibility"}
    THEN [W |-> [W EXCEPT !.deferredCalls = @ \cup {EventOf(m)}],
          raised |-> FALSE, emitted |-> "none", calls |-> <<>>]
  ELSE [W |-> W, raised |-> FALSE, emitted |-> "none", calls |-> <<>>]

\* The page posts a message and the WebView2 calls on_msg with its text.
message_arrives ==
  /\ _handle # "None"
  /\ \E m \in Messages, out \in PushOutcomes :
       LET r == on_msg(WCur, m, out) IN
       /\ InstallW(r.W)
       /\ last' = [op |-> "on_msg", key |-> m, inst |-> None, ret |-> None,
                   path |-> IF r.raised THEN "raised" ELSE "returned",
                   factoryCalls |-> 0, visRaised |-> FALSE,
                   closePath |-> "none", factoryOut |-> "none",
                   entryAtFactory |-> None, emitted |-> r.emitted,
                   result |-> IF r.calls = <<>> THEN "none" ELSE r.calls[1]]
  /\ UNCHANGED <<progVars, stack, timerVars>>

\* Maya runs a deferred select_node or set_visibility of the object.
\* select_node: cmds.select, then _on_maya_selection_changed, which emits
\* selection_changed; set_visibility: cmds.setAttr, then
\* _schedule_scene_push(80); what the Maya command raises is printed.
deferred_runs(c) ==
  /\ c \in deferredCalls
  /\ \E hostOut \in HostOutcomes :
       LET W1 == [WCur EXCEPT !.deferredCalls = @ \ {c}]
           W2 == IF c = "set_visibility" /\ hostOut = "ok"
                   THEN [_schedule_scene_push(W1) EXCEPT !.unserved = TRUE]
                   ELSE W1
       IN
       /\ InstallW(W2)
       /\ last' = [op |-> c, key |-> NoKey, inst |-> None, ret |-> None,
                   path |-> hostOut, factoryCalls |-> 0, visRaised |-> FALSE,
                   closePath |-> "none", factoryOut |-> "none",
                   entryAtFactory |-> None,
                   emitted |-> IF c = "select_node" /\ hostOut = "ok"
                                 THEN "selection_changed" ELSE "none",
                   result |-> IF c = "select_node" /\ hostOut = "ok"
                                THEN "post_message" ELSE "none"]
  /\ UNCHANGED <<progVars, stack, timerVars>>

NextMsg ==
  \/ NextWV2
  \/ message_arrives
  \/ \E c \in {"select_node", "set_visibility"} : deferred_runs(c)

\* One MayaOutlinerWV2 with the messages of its page.
SpecMsg == Init /\ [][NextMsg]_vars

\* maya_outliner.main(singleton=True), with every outcome of run().
main_cb ==
  /\ _container = "None"
  /\ main_with(V1Key, RunOutcomes)

NextCallbacks ==
  \/ main_cb
  \/ \E i \in Ids : close_call(i)
  \/ dialog_close_returns
  \/ \E i \in Ids : operator_close(i)
  \/ wv2_main
  \/ wv2_close

\* One outliner of either kind, with the registration of its Maya callbacks
\* or watchers failing part-way as one of the outcomes.
SpecCallbacks == Init /\ [][NextCallbacks]_vars

\* In log, every call of A comes before every call of B.
Precedes(log, A, B) ==
  \A m, n \in 1..Len(log) : (log[m] \in A /\ log[n] \in B) => m < n

TypeOK ==
  /\ _instances \in [Keys -> Ids \cup {None}]
  /\ constructed \in 0..MaxInst
  /\ dialog \in [Ids -> Ids \cup {None}]
  /\ webview \in [Ids -> Ids \cup {None}]
  /\ _is_closing \in [Ids -> BOOLEAN]
  /\ isVisible \in [Ids -> BOOLEAN]
  /\ Len(stack) <= 1

(***************************************************************************)
(* Steps, as seen from a pair of states.                                   *)
(***************************************************************************)

\* A _get_or_create_singleton(k, ...) call was made in this step.
IsMainStep(k) ==
  /\ stack = <<>> /\ stack' = <<>>
  /\ last'.op = "get_or_create" /\ last'.key = k

\* The liveness test of the instance stored under k passes in this step.
LivenessPasses(k) ==
  /\ _instances[k] # None
  /\ Live(_instances[k])
  /\ ~last'.visRaised

\* A close() call made by the host script returned in this step.
IsCloseReturn ==
  /\ stack' = <<>>
  /\ last'.op = "close"
  /\ last'.path # "already_closing"

\* A close() call was made in this step while a close() was in progress.
IsReentrantClose == stack # <<>> /\ Len(stack') >= Len(stack)

CleanupSteps == {"cleanup_callbacks", "dialog.close", "clear_refs"}

(***************************************************************************)
(* Claims.                                                                 *)
(***************************************************************************)

\* C1: for every key k, at most one instance created under k has a live
\* (visible) window at the same instant.
SingletonInvariant ==
  \A k \in Keys :
    Cardinality({i \in Ids : i <= constructed /\ _singleton_key[i] = k
                              /\ Live(i)}) <= 1

\* C2: when the instance stored under k passes the liveness test,
\* _get_or_create_singleton(k, factory) returns that instance, does not run
\* the factory and changes nothing; and a call that directly follows a call
\* for the same key that returned an instance returns that same instance.
Reuse ==
  [][\A k \in Keys :
       /\ (IsMainStep(k) /\ LivenessPasses(k)) =>
            /\ last'.ret = _instances[k]
            /\ last'.factoryCalls = 0
            /\ UNCHANGED progVars
       /\ (IsMainStep(k) /\ last.op = "get_or_create" /\ last.key = k
             /\ last.path = "returned" /\ ~last'.visRaised) =>
            /\ last'.ret = last.ret
            /\ last'.factoryCalls = 0]_vars

\* C2 witness: a call has just returned the live instance already stored
\* under its key, without running the factory.
ReuseWitness ==
  /\ last.op = "get_or_create"
  /\ last.factoryCalls = 0
  /\ last.ret # None
  /\ last.ret = last.inst
  /\ Live(last.ret)

\* C3: when the instance stored under k fails the liveness test, the next
\* _get_or_create_singleton(k, factory) runs the factory exactly once, does
\* not return or keep the stale instance, and, when the factory returns,
\* stores and returns the newly constructed instance.
StaleRecycling ==
  [][\A k \in Keys :
       (IsMainStep(k) /\ _instances[k] # None /\ ~LivenessPasses(k)) =>
         /\ last'.factoryCalls = 1
         /\ last'.ret # _instances[k]
         /\ _instances'[k] # _instances[k]
         /\ last'.path = "returned" =>
              /\ constructed' = constructed + 1
              /\ last'.ret = constructed'
              /\ _instances'[k] = last'.ret
              /\ \A i \in Ids : i = last'.ret => Live(i)']_vars

\* C3 witness: a call found a stale instance under its key and returned a
\* newly constructed one, now stored under the key.
StaleRecyclingWitness ==
  /\ last.op = "get_or_create"
  /\ last.inst # None
  /\ last.factoryCalls = 1
  /\ last.ret # None
  /\ last.ret # last.inst
  /\ _instances[last.key] = last.ret

\* C4: when A.close() has returned and the next call is
\* _get_or_create_singleton for the key A was created under, that call runs
\* the factory once and returns a new instance B # A, stored under the key.
CreateCloseRecreate ==
  [][\A k \in Keys :
       (IsMainStep(k) /\ last.op = "close" /\ last.path # "already_closing"
          /\ _singleton_key[last.inst] = k /\ last'.path = "returned") =>
         /\ last'.ret # last.inst
         /\ last'.factoryCalls = 1
         /\ _instances'[k] = last'.ret]_vars

\* C5: a close() call changes the registry entry of a key only if the
\* instance stored under that key is the calling instance.
GuardedRemoval ==
  [][\A k \in Keys :
       (last'.op = "close" /\ _instances[k] # None
          /\ _instances'[k] # _instances[k]) =>
         _instances[k] = last'.inst]_vars

\* C6: of two close() calls made in sequence on the same instance, the
\* second performs no cleanup step (callback removal, dialog close,
\* reference clearing).
CloseIdempotent ==
  [][(IsCloseReturn /\ last.op = "close" /\ last.path # "already_closing"
        /\ last'.inst = last.inst) =>
       StepsOf(last'.path) \cap CleanupSteps = {}]_vars

\* C7: a close() call that arrives while a close() of the same instance is
\* in progress returns immediately and changes no state.
ReentrantCloseIsNoOp ==
  [][IsReentrantClose =>
       /\ UNCHANGED <<progVars, stack>>
       /\ last'.op = "close"
       /\ last'.inst = stack[Len(stack)].inst
       /\ last'.path = "already_closing"]_vars

\* C7 witness: a close() call has returned at the gate while the close() of
\* that instance is still inside dialog.close().
ReentrantCloseWitness ==
  /\ stack # <<>>
  /\ last.op = "close"
  /\ last.path = "already_closing"
  /\ last.inst = stack[Len(stack)].inst
  /\ _is_closing[last.inst]

\* C8: every close() that began on a Running instance ends with the
\* instance Closed and not stored in the registry, whatever its steps did.
ClosingAlwaysCompletes ==
  [][\A i \in Ids :
       (stack # <<>> /\ stack' = <<>> /\ stack[1].inst = i
          /\ stack[1].wasRunning) =>
         /\ Closed(i)'
         /\ \A k \in Keys : _instances'[k] # i]_vars

\* C9: an instance that is Closing or Closed is never Running afterwards.
ForwardOnly ==
  [][\A i \in Ids : (Closing(i) \/ Closed(i)) => ~Running(i)']_vars

FactoryFailure ==
  [][\A k \in Keys :
       (IsMainStep(k) /\ last'.factoryOut = "raise") =>
         /\ last'.path = "raised"
         /\ last'.ret = None
         /\ _instances'[k] = None
         /\ constructed' = constructed]_vars

\* C12 witness: the factory raised after the close() of the stale instance
\* stored under the key had failed, and the key is free.
FactoryFailureWitness ==
  /\ last.op = "get_or_create"
  /\ last.factoryOut = "raise"
  /\ last.path = "raised"
  /\ last.inst # None
  /\ last.closePath = "failed"
  /\ dialog[last.inst] # None
  /\ _instances[last.key] = None

\* C13: when isVisible() of the stored instance raises, or the close() of
\* the stale instance fails, _get_or_create_singleton(k, factory) still runs
\* the factory once, neither returns nor keeps the stale instance, ends with
\* an exception only if the factory raised, and otherwise returns the new
\* instance, stored under k.
CleanupNeverBlocksCreation ==
  [][\A k \in Keys :
       (IsMainStep(k) /\ last'.inst # None
          /\ (last'.visRaised \/ last'.closePath = "failed")) =>
         /\ last'.factoryCalls = 1
         /\ last'.ret # last'.inst
         /\ _instances'[k] # last'.inst
         /\ last'.path = "raised" => last'.factoryOut = "raise"
         /\ last'.factoryOut = "ok" =>
              /\ last'.path = "returned"
              /\ last'.ret = constructed'
              /\ constructed' = constructed + 1
              /\ _instances'[k] = last'.ret
              /\ _singleton_key'[last'.ret] = k]_vars

\* C13 witness: isVisible() of the stored instance raised and its close()
\* failed, and the call returned a new instance, now stored under the key.
CleanupNeverBlocksCreationWitness ==
  /\ last.op = "get_or_create"
  /\ last.visRaised
  /\ last.closePath = "failed"
  /\ last.path = "returned"
  /\ last.ret # None
  /\ last.ret # last.inst
  /\ _instances[last.key] = last.ret

\* The operator has just closed the window of instance i.
OperatorClosed(i) == last.op = "operator_close" /\ last.inst = i

\* C11: once the operator has closed the window of a Running instance, the
\* close path of that instance runs without a further call of the host
\* script: a tick of the instance's timer, the only step that needs no call
\* of the host script, is due; and unless the host script makes another call
\* (one that returned or a close() still in progress), eventually the
\* instance is Closed, none of its Maya callbacks is registered and no key
\* of the registry holds it.
OperatorCloseDetected ==
  /\ [](\A i \in Ids : OperatorClosed(i) => _event_timer[i] = "running")
  /\ \A i \in Ids :
       OperatorClosed(i)
         ~> \/ /\ Closed(i)
               /\ \A c \in Callbacks : <<i, c>> \notin registered
               /\ \A k \in Keys : _instances[k] # i
            \/ last.op \notin {"operator_close", "tick"}
            \/ stack # <<>>

\* C16: close() stops the EventTimer of the instance before anything else,
\* so for an instance whose close() is in progress or has completed no tick
\* runs and no close observer is invoked.
TimerStoppedFirst ==
  [][\A i \in Ids :
       (_is_closing[i] \/ Closed(i)) =>
         /\ ~IsTick(i)
         /\ on_close_calls'[i] = on_close_calls[i]]_vars

\* C18: the tick of a timer started with check_window_validity that finds
\* the handle invalid invokes the close observer and stops the timer; the
\* close observer of an instance is invoked at most once, a tick that finds
\* the handle valid does not invoke it, and once it has been invoked no
\* tick of that timer runs.
CloseDetectedOnce ==
  /\ [](\A i \in Ids : on_close_calls[i] <= 1)
  /\ [][\A i \in Ids :
         /\ (IsTick(i) /\ ~HandleValid(i)) =>
              /\ on_close_calls'[i] = on_close_calls[i] + 1
              /\ _event_timer'[i] = "stopped"
         /\ (IsTick(i) /\ HandleValid(i)) =>
              on_close_calls'[i] = on_close_calls[i]
         /\ on_close_calls[i] >= 1 =>
              /\ ~IsTick(i)
              /\ tick_count'[i] = tick_count[i]]_vars

\* C18 witness: after two ticks with a valid handle, a third tick found the
\* handle invalid, invoked the close observer once and stopped the timer.
CloseDetectedOnceWitness ==
  \E i \in Ids :
    /\ last.op = "tick" /\ last.inst = i
    /\ tick_count[i] = 3
    /\ on_close_calls[i] = 1
    /\ _event_timer[i] = "stopped"
    /\ ~HandleValid(i)

\* C19: every tick of a running timer increases the tick counter of the
\* timer and the counter of handle_tick by exactly 1; no other step changes
\* them; and once stop() or cleanup() has been called they never change.
TickCounting ==
  [][\A i \in Ids :
       /\ IsTick(i) =>
            /\ _event_timer[i] = "running"
            /\ tick_count'[i] = tick_count[i] + 1
            /\ _counter'[i] = _counter[i] + 1
       /\ ~IsTick(i) =>
            /\ tick_count'[i] = tick_count[i]
            /\ _counter'[i] = _counter[i]
       /\ _event_timer[i] \in {"stopped", "cleaned"} =>
            /\ tick_count'[i] = tick_count[i]
            /\ _counter'[i] = _counter[i]
            /\ _event_timer'[i] # "running"]_vars

\* C19 witness: stop() has been called on a timer that had ticked twice.
TickCountingWitness ==
  \E i \in Ids :
    /\ last.op \in {"stop", "cleanup"} /\ last.inst = i
    /\ _event_timer[i] \in {"stopped", "cleaned"}
    /\ tick_count[i] = 2
    /\ _counter[i] = 2

\* C20: a tick in which an observer raised still counts, and leaves the
\* timer running unless that tick found the handle invalid.
ObserverFailuresContained ==
  [][\A i \in Ids :
       (IsTick(i) /\ last'.path = "observer_raised") =>
         /\ tick_count'[i] = tick_count[i] + 1
         /\ IF HandleValid(i)
              THEN _event_timer'[i] = "running"
              ELSE _event_timer'[i] = "stopped"]_vars

\* C20 witness: the second tick of a timer has run although an observer
\* raised, and the timer is still running.
ObserverFailuresContainedWitness ==
  \E i \in Ids :
    /\ last.op = "tick" /\ last.inst = i
    /\ last.path = "observer_raised"
    /\ tick_count[i] = 2
    /\ _event_timer[i] = "running"
    /\ HandleValid(i)

\* The calls of MayaOutlinerWV2.close() that remove watchers, and those that
\* tear the window down.
RemovalCalls == {"scriptJob.kill", "removeCallback"}

TeardownCalls == {"dispose", "container.close"}

\* C14: in every close(), the removal of the recorded Maya callbacks or
\* watchers comes before the window is closed or disposed: when
\* MayaOutliner.close() calls dialog.close(), every callback the instance had
\* recorded has been removed, and nothing is removed once dialog.close() has
\* returned; MayaOutlinerWV2.close() makes its removal calls before dispose
\* and container.close(), and leaves no recorded watcher behind.
CallbacksDetachedFirst ==
  /\ [][\A i \in Ids :
         /\ (Len(stack') > Len(stack) /\ stack'[Len(stack')].inst = i) =>
              /\ callback_ids'[i] = {}
              /\ \A c \in callback_ids[i] : <<i, c>> \notin registered'
         /\ (Len(stack') < Len(stack) /\ stack[Len(stack)].inst = i) =>
              /\ callback_ids[i] = {}
              /\ registered' = registered]_vars
  /\ [](/\ Precedes(closeLog, RemovalCalls, TeardownCalls)
        /\ last.op = "wv2_close" =>
             /\ _script_jobs = {} /\ _om_callbacks = {}
             /\ scriptJobs = {})

\* C14 witness: the close() of a Running instance is inside dialog.close(),
\* the dialog still showing, with none of the instance's callbacks installed.
CallbacksDetachedFirstWitness ==
  /\ stack # <<>>
  /\ stack[1].wasRunning
  /\ isVisible[stack[1].inst]
  /\ callback_ids[stack[1].inst] = {}
  /\ \A c \in Callbacks : <<stack[1].inst, c>> \notin registered

\* C15: when a close() call that ran has returned, none of the Maya
\* callbacks the instance registered is still installed, whatever the
\* outcome of the registration was.
CallbacksRemovedOnClose ==
  (last.op = "close" /\ last.path # "already_closing") =>
    \A c \in Callbacks : <<last.inst, c>> \notin registered

\* C17: in a close(), the native handle is destroyed only after the close
\* of the wrapping window was tried and left the handle valid: a dispose is
\* preceded by a container.close() that did not close the container.
EscalationGated ==
  \A n \in 1..Len(closeLog) :
    closeLog[n] = "dispose" =>
      /\ \E m \in 1..(n - 1) : closeLog[m] = "container.close"
      /\ _container # "closed"

(***************************************************************************)
(* C21.  close() never raises.                                             *)
(***************************************************************************)

\* The ways a MayaOutliner.close() call ends; each of them is a return.
CloseReturnPaths == {"already_closing", "nothing", "done", "failed"}

\* C21: close() returns normally whatever state the instance is in and
\* whichever of its steps fails.  A MayaOutliner.close() ends on one of its
\* return paths, also when dialog.close() raised; a MayaOutlinerWV2.close()
\* runs to its last statement, also when dispose or container.close()
\* raised: the handle reference is cleared and container.close() is its last
\* call.  A get-or-create call raises only when the factory raised.
CloseNeverRaises ==
  /\ last.op = "close" => last.path \in CloseReturnPaths
  /\ last.op = "wv2_close" =>
       /\ _handle = "None"
       /\ closeLog # <<>>
       /\ closeLog[Len(closeLog)] = "container.close"
  /\ (last.op = "get_or_create" /\ last.path = "raised") =>
       last.factoryOut = "raise"

\* A close() whose dialog.close() raised has returned to the host script.
CloseNeverRaisesWitness ==
  /\ last.op = "close"
  /\ last.path = "failed"
  /\ stack = <<>>
  /\ ~_is_closing[last.inst]
  /\ dialog[last.inst] # None

(***************************************************************************)
(* C22.  Multi-instance mode.                                              *)
(***************************************************************************)

\* A main(singleton=False) call was made in this step.
IsMultiStep ==
  /\ stack = <<>> /\ stack' = <<>>
  /\ last'.op = "main_multi"
  /\ (last' # last \/ constructed' # constructed)

\* C22: main(singleton=False) always constructs and runs a new instance and
\* leaves the registry as it is: when it returns, the instance it returns
\* is one constructed in this call, has no singleton key and is Running,
\* and every instance that was Running still is.  The registry changes only
\* in a get-or-create call or in the close() of an instance that has a
\* singleton key.
MultiInstanceMode ==
  [][/\ IsMultiStep =>
          /\ _instances' = _instances
          /\ last'.path = "returned" =>
               /\ last'.ret = constructed + 1
               /\ constructed' = constructed + 1
               /\ \A i \in Ids : i = last'.ret =>
                    /\ _singleton_key'[i] = NoKey
                    /\ dialog'[i] # None /\ webview'[i] # None
                    /\ isVisible'[i] /\ ~_is_closing'[i]
               /\ \A j \in Ids : Running(j) => Running(j)'
     /\ _instances' # _instances =>
          \/ last'.op = "get_or_create"
          \/ /\ last'.op = "close"
             /\ \A i \in Ids : i = last'.inst => _singleton_key[i] # NoKey
    ]_vars

\* Two instances made by main(singleton=False) are Running at once, and a
\* third one has just been closed.
MultiInstanceModeWitness ==
  /\ \E i, j \in Ids :
       /\ i # j
       /\ _singleton_key[i] = NoKey /\ Running(i)
       /\ _singleton_key[j] = NoKey /\ Running(j)
  /\ \E k \in Ids :
       /\ _singleton_key[k] = NoKey
       /\ k <= constructed
       /\ Closed(k)
  /\ last.op = "close" /\ last.path = "done"

(***************************************************************************)
(* C23.  Recycling order.                                                  *)
(***************************************************************************)

\* C23: when a get-or-create call found a stale entry under its key and
\* invoked the factory, the close path of the stale instance had been
\* invoked before, and at the moment the factory was invoked the key had no
\* entry: the factory never runs while the stale instance is still recorded.
RecyclingOrder ==
  (last.op = "get_or_create" /\ last.factoryCalls = 1 /\ last.inst # None) =>
    /\ last.closePath # "none"
    /\ last.entryAtFactory = None

\* A stale instance was recycled although its close() failed: the factory
\* ran, with the entry already evicted, and its instance was returned.
RecyclingOrderWitness ==
  /\ last.op = "get_or_create"
  /\ last.factoryCalls = 1
  /\ last.inst # None
  /\ last.closePath = "failed"
  /\ last.ret # None
  /\ _instances[last.key] = last.ret

(***************************************************************************)
(* C24.  No emit after close.                                              *)
(***************************************************************************)

\* C24: once a close() call on an instance has returned to the host script,
\* no scene_updated or selection_changed is emitted on the webview of that
\* instance, whether by a Maya callback that still fires or by
\* set_visibility.  Stated for the call that follows the close().
NoEmitAfterClose ==
  [][\A i \in Ids :
       (/\ stack = <<>>
        /\ last.op = "close" /\ last.inst = i
        /\ last.path \in {"nothing", "done", "failed"})
       => ~(last'.inst = i /\ last'.emitted # "none")
    ]_vars

(***************************************************************************)
(* C26.  API result reflects success.                                      *)
(***************************************************************************)

\* C26: MayaOutlinerAPI.select_node and set_visibility return ok=True only
\* when the Maya command behind them succeeded, and ok=False when it
\* failed.
ApiResultReflectsSuccess ==
  last.op \in {"api_select_node", "api_set_visibility"} =>
    (last.result = "ok_true" <=> last.path = "ok")

(***************************************************************************)
(* C25.  Fallback of MayaOutlinerV2._start_event_processing.               *)
(***************************************************************************)

\* C25: a _start_event_processing call on an instance that has a webview
\* completes without error and leaves event processing started, also when
\* the webview has no lifecycle support or starting it failed.
V2Fallback ==
  (last.op = "_start_event_processing" /\ last.path # "no_webview") =>
    /\ last.path = "started"
    /\ _event_timer[last.inst] = "running"

(***************************************************************************)
(* C27.  Scene-push throttle of MayaOutlinerWV2.                           *)
(***************************************************************************)

NoLostSceneUpdate ==
  /\ unserved ~> ~unserved
  /\ _pending_scene_push ~> ~_pending_scene_push

\* A push fired after the object was closed and its emit raised: the
\* request is served and the flag is clear.
NoLostSceneUpdateWitness ==
  /\ last.op = "_do"
  /\ last.path = "post_raised"
  /\ ~unserved
  /\ ~_pending_scene_push
  /\ closeLog # <<>>

(***************************************************************************)
(* C29.  Dispose at most once.                                             *)
(***************************************************************************)

\* C29: whatever sequence of close() calls is made on a MayaOutlinerWV2,
\* win_webview2_dispose is invoked at most once, and once a close() has been
\* made the handle reference is None, also when dispose raised.
DisposeAtMostOnce ==
  /\ disposeCalls <= 1
  /\ closeLog # <<>> => _handle = "None"

\* A second close() has been made and disposed nothing: the only call it
\* made is container.close().
DisposeAtMostOnceWitness ==
  /\ last.op = "wv2_close"
  /\ disposeCalls = 1
  /\ closeLog = <<"container.close">>

(***************************************************************************)
(* C30.  No surface call after close.                                      *)
(***************************************************************************)

\* The calls on the WebView2 surface.
SurfaceCalls == {"post_message", "eval", "set_bounds"}

\* C30: once close() has been made on a MayaOutlinerWV2, no post_message,
\* eval or set_bounds call is issued for its surface, also when a scene
\* push, a watcher or the bounds sync scheduled before the close() fires
\* afterwards.
NoSurfaceCallAfterClose ==
  [][closeLog # <<>> =>
       ~(last' # last /\ last'.result \in SurfaceCalls)]_vars

(***************************************************************************)
(* C33.  Message handler robustness of MayaOutlinerWV2.                    *)
(***************************************************************************)

\* C33: whatever message text the page sends, on_msg returns without
\* raising; and for every message other than a well-formed
\* get_scene_hierarchy, select_node or set_visibility event it emits
\* nothing, calls nothing on the surface and leaves the object, its timers
\* and its deferred calls as they are.  (last.key is the message.)
MessageHandlerRobust ==
  /\ [](last.op = "on_msg" => last.path = "returned")
  /\ [][(last'.op = "on_msg" /\ last' # last
         /\ last'.key \notin WellFormed) =>
          /\ last'.emitted = "none"
          /\ last'.result = "none"
          /\ UNCHANGED wv2Vars
       ]_vars

(***************************************************************************)
(* C31.  Registry key consistency.                                         *)
(***************************************************************************)

\* C31: after any sequence of get-or-create and close() calls, every
\* instance stored in the registry under a key k has k as its own
\* _singleton_key, and no instance is stored under more than one key.
RegistryKeyConsistency ==
  /\ \A k \in Keys :
       _instances[k] # None => _singleton_key[_instances[k]] = k
  /\ \A k1, k2 \in Keys :
       (_instances[k1] # None /\ _instances[k1] = _instances[k2]) => k1 = k2

\* Both keys hold an instance, the one of the V2 key made by recycling a
\* stale one.
RegistryKeyConsistencyWitness ==
  /\ _instances[V1Key] # None
  /\ _instances[V2Key] # None
  /\ last.op = "get_or_create" /\ last.key = V2Key
  /\ last.factoryCalls = 1 /\ last.inst # None
  /\ last.ret = _instances[V2Key]

(***************************************************************************)
(* C32.  Key isolation.                                                    *)
(***************************************************************************)

\* C32: the registry entry of a key changes only in a get-or-create call
\* for that key or in the close() of an instance whose key it is; the
\* entries of the V1 key and of the V2 key are never evicted or replaced by
\* a call for the other key.
KeyIsolation ==
  [][\A k \in Keys :
       _instances'[k] # _instances[k] =>
         /\ last'.op \in {"get_or_create", "close"}
         /\ last'.key = k
    ]_vars

\* A close() of the V2 instance has removed its entry and left the Running
\* V1 instance in the registry.
KeyIsolationWitness ==
  /\ last.op = "close" /\ last.key = V2Key /\ last.path = "done"
  /\ _instances[V2Key] = None
  /\ _instances[V1Key] # None
  /\ Running(_instances[V1Key])

====
